---- MODULE Spec2Model ----
(***************************************************************************)
(* Model of the "Data Playground" script (src/app.py).  The script is      *)
(* re-executed from top to bottom on every user interaction; one action    *)
(* of the model is one interaction followed by the complete re-execution.  *)
(* The state is the widget state kept by the UI framework between runs,    *)
(* the memo of load_data, and what the last run computed and displayed.    *)
(***************************************************************************)
EXTENDS Integers, Sequences, FiniteSets, TLC

(* ------------------------------------------------------------------ *)
(* Bounds of the model                                                  *)
(* ------------------------------------------------------------------ *)
MaxRows == 2

(* ------------------------------------------------------------------ *)
(* Cells.  A cell is a number, a string or a missing value (NaN).       *)
(* ------------------------------------------------------------------ *)
NA == [t |-> "na", n |-> 0, s |-> ""]
Num(i) == [t |-> "num", n |-> i, s |-> ""]
Str(x) == [t |-> "str", n |-> 0, s |-> x]
isna(c) == c.t = "na"

NumVals == {1, 2}
TextVals == {"A", "B"}

Range(q) == {q[i] : i \in 1..Len(q)}

(* ------------------------------------------------------------------ *)
(* Tables.  columns: ordered names; dtypes: name -> dtype; rows: each   *)
(* row keeps the index label given at load time and its cells.          *)
(* ------------------------------------------------------------------ *)
Columns == <<"age", "city">>
Kind == [age |-> "num", city |-> "text"]
CellsOf(kind) == IF kind = "text" THEN {Str(x) : x \in TextVals} \cup {NA}
                 ELSE {Num(i) : i \in NumVals} \cup {NA}
AllCells == {Num(i) : i \in NumVals} \cup {Str(x) : x \in TextVals} \cup {NA}
RowCells == {f \in [Range(Columns) -> AllCells] :
               \A c \in Range(Columns) : f[c] \in CellsOf(Kind[c])}

(* dtype inference of the decoder: any string makes the column object;  *)
(* otherwise a missing value makes it float64; otherwise int64.         *)
InferDtype(cs) == IF \E c \in cs : c.t = "str" THEN "object"
                  ELSE IF \E c \in cs : isna(c) THEN "float64" ELSE "int64"

NoTable == [present |-> FALSE, columns |-> <<>>, dtypes |-> <<>>, rows |-> <<>>]

MkTable(cols, cells) ==
  [present |-> TRUE,
   columns |-> cols,
   dtypes  |-> [c \in Range(cols) |-> InferDtype({cells[i][c] : i \in 1..Len(cells)})],
   rows    |-> [i \in 1..Len(cells) |-> [index |-> i - 1, cells |-> cells[i]]]]

(* ------------------------------------------------------------------ *)
(* The dataframe operations the script calls, as the library computes   *)
(* them.                                                                *)
(* ------------------------------------------------------------------ *)
Series(t, c) == [i \in 1..Len(t.rows) |-> t.rows[i].cells[c]]
HasColumn(t, c) == c \in Range(t.columns)

(* df.drop(columns=cs): the remaining columns in their order, every row kept *)
drop(t, cs) ==
  LET keep == SelectSeq(t.columns, LAMBDA c : c \notin cs)
  IN  [present |-> TRUE,
       columns |-> keep,
       dtypes  |-> [c \in Range(keep) |-> t.dtypes[c]],
       rows    |-> [i \in 1..Len(t.rows) |->
                      [index |-> t.rows[i].index,
                       cells |-> [c \in Range(keep) |-> t.rows[i].cells[c]]]]]

(* df.dropna(): rows with a missing value in any column are removed *)
dropna(t) ==
  [t EXCEPT !.rows = SelectSeq(t.rows,
                        LAMBDA r : \A c \in Range(t.columns) : ~isna(r.cells[c]))]

(* a fill that leaves text columns alone *)
fillnaNumericOnly(t, v) ==
  [t EXCEPT !.rows = [i \in 1..Len(t.rows) |->
      [index |-> t.rows[i].index,
       cells |-> [c \in Range(t.columns) |->
                    IF isna(t.rows[i].cells[c]) /\ t.dtypes[c] # "object"
                    THEN v ELSE t.rows[i].cells[c]]]]]

(* df.fillna(v): every missing cell becomes v; dtypes are kept *)
fillna(t, v) ==
  [t EXCEPT !.rows = [i \in 1..Len(t.rows) |->
      [index |-> t.rows[i].index,
       cells |-> [c \in Range(t.columns) |->
                    IF isna(t.rows[i].cells[c]) THEN v ELSE t.rows[i].cells[c]]]]]

is_numeric_dtype(d) == d \in {"int64", "float64"}

(* Series.min() / max(): missing values are skipped; NaN when nothing is left *)
Observed(ser) == {ser[i].n : i \in {j \in 1..Len(ser) : ser[j].t = "num"}}
SetMin(S) == CHOOSE x \in S : \A y \in S : x <= y
SetMax(S) == CHOOSE x \in S : \A y \in S : x >= y
min(ser) == IF Observed(ser) = {} THEN NA ELSE Num(SetMin(Observed(ser)))
max(ser) == IF Observed(ser) = {} THEN NA ELSE Num(SetMax(Observed(ser)))

(* elementwise comparisons: any comparison with NaN is False *)
ge(c, b) == c.t = "num" /\ b.t = "num" /\ c.n >= b.n
le(c, b) == c.t = "num" /\ b.t = "num" /\ c.n <= b.n

(* df[mask]: the rows whose mask is True, in order *)
RowsWhere(t, P(_)) == [t EXCEPT !.rows = SelectSeq(t.rows, P)]

(* Series.unique(): distinct values in order of first appearance, NaN once *)
RECURSIVE uniqueFrom(_, _, _)
uniqueFrom(ser, i, acc) ==
  IF i > Len(ser) THEN acc
  ELSE uniqueFrom(ser, i + 1,
                  IF ser[i] \in Range(acc) THEN acc ELSE Append(acc, ser[i]))
unique(ser) == uniqueFrom(ser, 1, <<>>)

(* membership by ==, under which NaN matches nothing *)
isinByEquality(c, vals) == c \in vals /\ ~isna(c)

(* Series.isin(vals): membership; NaN matches NaN *)
isin(c, vals) == c \in vals

(* df.select_dtypes(include=['float64','int64']).columns.tolist() *)
select_numeric(t) == SelectSeq(t.columns, LAMBDA c : t.dtypes[c] \in {"float64", "int64"})

(* ------------------------------------------------------------------ *)
(* Statistics of a numeric Series.  A float is NaN or the rational      *)
(* num/den (den > 0, num >= 0).  Missing values are skipped.            *)
(* ------------------------------------------------------------------ *)
NaN == [nan |-> TRUE, num |-> 0, den |-> 1]
Float(a, b) == [nan |-> FALSE, num |-> a, den |-> b]

RECURSIVE insertSorted(_, _)
insertSorted(q, x) ==
  IF q = <<>> THEN <<x>>
  ELSE IF x <= Head(q) THEN <<x>> \o q
  ELSE <<Head(q)>> \o insertSorted(Tail(q), x)
RECURSIVE sortedFrom(_, _, _)
sortedFrom(ser, i, acc) ==
  IF i > Len(ser) THEN acc
  ELSE sortedFrom(ser, i + 1,
                  IF ser[i].t = "num" THEN insertSorted(acc, ser[i].n) ELSE acc)
SortedObs(ser) == sortedFrom(ser, 1, <<>>)
RECURSIVE SumSeq(_)
SumSeq(q) == IF q = <<>> THEN 0 ELSE Head(q) + SumSeq(Tail(q))
RECURSIVE SumSq(_)
SumSq(q) == IF q = <<>> THEN 0 ELSE Head(q) * Head(q) + SumSq(Tail(q))

(* Series.mean() *)
mean(ser) ==
  LET x == SortedObs(ser) IN
  IF Len(x) = 0 THEN NaN ELSE Float(SumSeq(x), Len(x))

(* Series.quantile(p / 100), linear interpolation between order statistics *)
quantile(ser, p) ==
  LET x == SortedObs(ser)
      n == Len(x)
      j == ((n - 1) * p) \div 100
      r == (n - 1) * p - 100 * j
  IN  IF n = 0 THEN NaN
      ELSE IF r = 0 THEN Float(x[j + 1], 1)
      ELSE Float(100 * x[j + 1] + (x[j + 2] - x[j + 1]) * r, 100)

(* Series.median() *)
median(ser) == quantile(ser, 50)

(* Series.std(): sample standard deviation (ddof = 1), NaN below two      *)
(* observations.  The float returned here is the variance; the display    *)
(* conversion takes the square root.                                      *)
std_ddof(ser, ddof) ==
  LET x == SortedObs(ser)
      n == Len(x)
  IN  IF n - ddof <= 0 THEN NaN
      ELSE Float(n * SumSq(x) - SumSeq(x) * SumSeq(x), n * (n - ddof))
stdPopulation(ser) == std_ddof(ser, 0)
std(ser) == std_ddof(ser, 1)

(* f"{v:.2f}": "nan" for NaN, otherwise the value rounded to hundredths *)
Shown(c) == [nan |-> FALSE, cents |-> c]
ShownNaN == [nan |-> TRUE, cents |-> 0]
format2(f) ==
  IF f.nan THEN ShownNaN
  ELSE Shown((200 * f.num + f.den) \div (2 * f.den))
(* the same conversion applied to the square root of f *)
format2sqrt(f) ==
  IF f.nan THEN ShownNaN
  ELSE Shown(CHOOSE k \in 0..(100 * (f.num + 1)) :
               /\ (k = 0 \/ (2 * k - 1) * (2 * k - 1) * f.den <= 40000 * f.num)
               /\ 40000 * f.num < (2 * k + 1) * (2 * k + 1) * f.den)

(* ------------------------------------------------------------------ *)
(* Uploaded files.  A file decodes to a table or the decoder raises.    *)
(* ------------------------------------------------------------------ *)
CsvFile(cols, cells) == [decodable |-> TRUE, columns |-> cols, cells |-> cells]
BadFile == [decodable |-> FALSE, columns |-> <<>>, cells |-> <<>>]

(* pd.read_csv / pd.read_excel *)
read(file) == MkTable(file.columns, file.cells)

(* load_data without its try/except: the decoder's exception leaves it *)
load_dataUncaught(file, mem) ==
  IF \E e \in mem : e.file = file
  THEN LET e == CHOOSE e \in mem : e.file = file
       IN  [df |-> e.df, notices |-> e.notices, raised |-> FALSE, cache |-> mem]
  ELSE IF file.decodable
  THEN [df |-> read(file), notices |-> {}, raised |-> FALSE,
        cache |-> mem \cup {[file |-> file, df |-> read(file), notices |-> {}]}]
  ELSE [df |-> NoTable, notices |-> {}, raised |-> TRUE, cache |-> mem]

(* load_data, lines 20-29.  mem is the memo of st.cache_data: the set of  *)
(* calls already made with their results; the notices written inside the *)
(* function are replayed on a hit.  raised: an exception left the         *)
(* function.                                                              *)
load_data(file, mem) ==
  IF \E e \in mem : e.file = file
  THEN LET e == CHOOSE e \in mem : e.file = file
       IN  [df |-> e.df, notices |-> e.notices, raised |-> FALSE, cache |-> mem]
  ELSE IF file.decodable
  THEN [df |-> read(file), notices |-> {}, raised |-> FALSE,
        cache |-> mem \cup {[file |-> file, df |-> read(file), notices |-> {}]}]
  ELSE [df |-> NoTable, notices |-> {"error: Error loading file"}, raised |-> FALSE,
        cache |-> mem \cup {[file |-> file, df |-> NoTable,
                             notices |-> {"error: Error loading file"}]}]

(* ------------------------------------------------------------------ *)
(* Widgets.  The framework keeps the value of a widget between runs     *)
(* under an identity computed from the widget's arguments (label,       *)
(* options, default, bounds).  A widget called with other arguments is  *)
(* a new widget and returns its default; the state of a widget that a   *)
(* run does not call is discarded at the end of that run.               *)
(* ------------------------------------------------------------------ *)
PyNone == "<None>"
Stored(id, v) == [rendered |-> TRUE, id |-> id, value |-> v]
Absent(id, v) == [rendered |-> FALSE, id |-> id, value |-> v]
widget(st, id, default) ==
  IF st.rendered /\ st.id = id THEN st.value ELSE default

(* a selectbox that keeps its value when its options change *)
selectboxKeepsValue(st, options, index) ==
  IF Len(options) = 0 THEN PyNone
  ELSE IF st.rendered THEN st.value ELSE options[index + 1]

(* st.selectbox(label, options, index): None when there are no options *)
selectbox(st, options, index) ==
  IF Len(options) = 0 THEN PyNone ELSE widget(st, options, options[index + 1])

MissingActions == {"None", "Drop Rows with Missing Values", "Fill with 0"}
ChartTypes == {"Scatter Plot", "Line Chart", "Bar Chart", "Histogram", "Box Plot"}

NoDrop == Absent(<<>>, {})
NoMissing == Absent(<<>>, "None")
NoSelect == Absent(<<>>, PyNone)
NoRngId == [label |-> PyNone, min |-> NA, max |-> NA]
NoRng == Absent(NoRngId, <<NA, NA>>)
NoValsId == [label |-> PyNone, options |-> <<>>]
NoVals == Absent(NoValsId, {})
NoPercentile == Absent(<<>>, 50)
NoChartType == Absent(<<>>, "Scatter Plot")
NoMetrics == [shown |-> FALSE, mean |-> ShownNaN, median |-> ShownNaN,
              std |-> ShownNaN, p_value |-> ShownNaN]

(* ------------------------------------------------------------------ *)
(* The steps of one run of the script.                                  *)
(* ------------------------------------------------------------------ *)

(* the cleaning continued from the table the previous run displayed *)
CleaningInputShown(loaded, shown) == IF shown.present THEN shown ELSE loaded

(* line 62: the cleaning starts from a copy of the loaded table; what the *)
(* previous run displayed (shown) is not an input of this run            *)
CleaningInput(loaded, shown) == loaded

(* df.drop raises KeyError for a label that is not a column *)
DropFails(t, todrop) == ~(todrop \subseteq Range(t.columns))

(* the drop called without keeping its result *)
DropColumnsUnassigned(t, todrop) == t

(* lines 70-71 *)
DropColumns(t, todrop) == IF todrop # {} THEN drop(t, todrop) ELSE t

(* lines 79-84 *)
HandleMissing(t, action) ==
  IF action = "Drop Rows with Missing Values" THEN dropna(t)
  ELSE IF action = "Fill with 0" THEN fillna(t, Num(0))
  ELSE t

(* the missing-value policy applied before the columns are dropped *)
CleanedMissingFirst(t, todrop, action) ==
  DropColumns(HandleMissing(t, action), todrop)

(* df_clean as it stands at line 88 *)
Cleaned(t, todrop, action) == HandleMissing(DropColumns(t, todrop), action)

(* line 88 *)
FilterOptions(t) == <<"None">> \o t.columns

(* df_clean[filter_col] raises KeyError for a label that is not a column *)
FilterFails(t, fcol) == fcol # "None" /\ ~HasColumn(t, fcol)

(* line 92 *)
NumericFilter(t, fcol) ==
  fcol # "None" /\ HasColumn(t, fcol) /\ is_numeric_dtype(t.dtypes[fcol])
ValuesFilter(t, fcol) ==
  fcol # "None" /\ HasColumn(t, fcol) /\ ~is_numeric_dtype(t.dtypes[fcol])

(* lines 93-95: the slider's label and bounds, and its default value *)
SliderId(t, fcol) ==
  [label |-> fcol, min |-> min(Series(t, fcol)), max |-> max(Series(t, fcol))]
SliderDefault(id) == <<id.min, id.max>>

(* lines 98-99: the multiselect's label and options; all selected by default *)
ValuesId(t, fcol) == [label |-> fcol, options |-> unique(Series(t, fcol))]
ValuesDefault(id) == Range(id.options)

(* line 96 *)
FilterRange(t, c, lo, hi) ==
  RowsWhere(t, LAMBDA r : ge(r.cells[c], lo) /\ le(r.cells[c], hi))

(* line 100 *)
FilterValues(t, c, vals) ==
  RowsWhere(t, LAMBDA r : isin(r.cells[c], vals))

(* lines 90-100 *)
ApplyFilter(t, fcol, range, vals) ==
  IF NumericFilter(t, fcol) THEN FilterRange(t, fcol, range[1], range[2])
  ELSE IF ValuesFilter(t, fcol) THEN FilterValues(t, fcol, vals)
  ELSE t

(* lines 118-127 *)
Metrics(t, col, pct) ==
  [shown |-> TRUE,
   mean |-> format2(mean(Series(t, col))),
   median |-> format2(median(Series(t, col))),
   std |-> format2sqrt(std(Series(t, col))),
   p_value |-> format2(quantile(Series(t, col), pct))]

(* line 145 *)
YIndex(all_cols) == IF Len(all_cols) > 1 THEN 1 ELSE 0

(* lines 150-165: the figure requested from the chart library; "None"    *)
(* means no grouping, a histogram takes no Y                             *)
NoFig == [shown |-> FALSE, kind |-> "", x |-> PyNone, y |-> PyNone, color |-> PyNone]
Figure(kind, x, y, color_encode) ==
  [shown |-> TRUE, kind |-> kind, x |-> x,
   y |-> IF kind = "Histogram" THEN PyNone ELSE y,
   color |-> IF color_encode = "None" THEN PyNone ELSE color_encode]

(* the same call without the try/except: the exception ends the run *)
TryChartUncaught(kind, x, y, color_encode, px_raises) ==
  IF px_raises
  THEN [fault |-> "ChartError", fig |-> NoFig, notices |-> {}]
  ELSE [fault |-> "none", fig |-> Figure(kind, x, y, color_encode), notices |-> {}]

(* lines 155-170: the chart library call raises or returns a figure; an  *)
(* exception is caught and reported                                      *)
TryChart(kind, x, y, color_encode, px_raises) ==
  IF px_raises
  THEN [fault |-> "none", fig |-> NoFig, notices |-> {"error: Could not create chart"}]
  ELSE [fault |-> "none", fig |-> Figure(kind, x, y, color_encode), notices |-> {}]

(* the notices of the cleaning tab, lines 72, 81, 84 *)
CleaningNotices(todrop, action) ==
  (IF todrop.rendered /\ todrop.value # {} THEN {"success: Dropped"} ELSE {})
  \cup (IF action.rendered /\ action.value = "Drop Rows with Missing Values"
        THEN {"info: Rows with missing values dropped."} ELSE {})
  \cup (IF action.rendered /\ action.value = "Fill with 0"
        THEN {"info: Missing values filled with 0."} ELSE {})

(* ------------------------------------------------------------------ *)
(* State                                                                *)
(* ------------------------------------------------------------------ *)
VARIABLES uploaded_file, cache,
          columns_to_drop, missing_action, filter_col, rng, selected_vals,
          selected_col_stat, percentile, chart_type, x_axis, y_axis, color_encode,
          df, df_clean, metrics, fig, notices, fault

vars == <<uploaded_file, cache,
          columns_to_drop, missing_action, filter_col, rng, selected_vals,
          selected_col_stat, percentile, chart_type, x_axis, y_axis, color_encode,
          df, df_clean, metrics, fig, notices, fault>>

(* the widget states as the next run finds them *)
Session ==
  [columns_to_drop |-> columns_to_drop, missing_action |-> missing_action,
   filter_col |-> filter_col, rng |-> rng, selected_vals |-> selected_vals,
   selected_col_stat |-> selected_col_stat, percentile |-> percentile,
   chart_type |-> chart_type, x_axis |-> x_axis, y_axis |-> y_axis,
   color_encode |-> color_encode]

(* ------------------------------------------------------------------ *)
(* One run of the script, lines 32-173, top to bottom.  uf is the       *)
(* uploader's value, W the widget states the run finds, px_raises       *)
(* whether the chart library raises.  A step that is not reached        *)
(* (no table, or an exception earlier in the run) leaves its widget     *)
(* unrendered and displays nothing.                                     *)
(* ------------------------------------------------------------------ *)
Rerun(uf, W, px_raises) ==
  /\ uploaded_file' = uf
  (* lines 32-36 *)
  /\ cache' = IF uf = <<>> THEN cache ELSE load_data(uf[1], cache).cache
  /\ df' = IF uf = <<>> THEN NoTable ELSE load_data(uf[1], cache).df
  (* line 69 *)
  /\ columns_to_drop' =
       IF df'.present
       THEN Stored(CleaningInput(df', df_clean).columns,
                   widget(W.columns_to_drop, CleaningInput(df', df_clean).columns, {}))
       ELSE NoDrop
  (* line 77, reached unless the drop raised *)
  /\ missing_action' =
       IF df'.present /\ ~DropFails(CleaningInput(df', df_clean), columns_to_drop'.value)
       THEN Stored(<<>>, widget(W.missing_action, <<>>, "None"))
       ELSE NoMissing
  (* line 88 *)
  /\ filter_col' =
       IF missing_action'.rendered
       THEN LET t == Cleaned(CleaningInput(df', df_clean),
                             columns_to_drop'.value, missing_action'.value)
            IN  Stored(FilterOptions(t), selectbox(W.filter_col, FilterOptions(t), 0))
       ELSE NoSelect
  (* line 95 *)
  /\ rng' =
       LET t == Cleaned(CleaningInput(df', df_clean),
                        columns_to_drop'.value, missing_action'.value)
       IN  IF filter_col'.rendered /\ NumericFilter(t, filter_col'.value)
           THEN LET id == SliderId(t, filter_col'.value)
                IN  Stored(id, widget(W.rng, id, SliderDefault(id)))
           ELSE NoRng
  (* line 99 *)
  /\ selected_vals' =
       LET t == Cleaned(CleaningInput(df', df_clean),
                        columns_to_drop'.value, missing_action'.value)
       IN  IF filter_col'.rendered /\ ValuesFilter(t, filter_col'.value)
           THEN LET id == ValuesId(t, filter_col'.value)
                IN  Stored(id, widget(W.selected_vals, id, ValuesDefault(id)))
           ELSE NoVals
  (* lines 96, 100, 103 *)
  /\ df_clean' =
       LET t == Cleaned(CleaningInput(df', df_clean),
                        columns_to_drop'.value, missing_action'.value)
       IN  IF filter_col'.rendered /\ ~FilterFails(t, filter_col'.value)
           THEN ApplyFilter(t, filter_col'.value, rng'.value, selected_vals'.value)
           ELSE NoTable
  (* lines 110-113 *)
  /\ selected_col_stat' =
       IF df_clean'.present /\ select_numeric(df_clean') # <<>>
       THEN Stored(select_numeric(df_clean'),
                   selectbox(W.selected_col_stat, select_numeric(df_clean'), 0))
       ELSE NoSelect
  (* line 125, reached unless df_clean[selected_col_stat] raised *)
  /\ percentile' =
       IF selected_col_stat'.rendered /\ HasColumn(df_clean', selected_col_stat'.value)
       THEN Stored(<<>>, widget(W.percentile, <<>>, 50))
       ELSE NoPercentile
  (* lines 118-127 *)
  /\ metrics' =
       IF percentile'.rendered
       THEN Metrics(df_clean', selected_col_stat'.value, percentile'.value)
       ELSE NoMetrics
  (* line 135, reached unless the statistics tab raised *)
  /\ chart_type' =
       IF df_clean'.present /\ (selected_col_stat'.rendered => percentile'.rendered)
       THEN Stored(<<>>, widget(W.chart_type, <<>>, "Scatter Plot"))
       ELSE NoChartType
  (* lines 138-147 *)
  /\ x_axis' =
       IF chart_type'.rendered
       THEN Stored(df_clean'.columns, selectbox(W.x_axis, df_clean'.columns, 0))
       ELSE NoSelect
  /\ y_axis' =
       IF chart_type'.rendered
       THEN Stored(df_clean'.columns,
                   selectbox(W.y_axis, df_clean'.columns, YIndex(df_clean'.columns)))
       ELSE NoSelect
  /\ color_encode' =
       IF chart_type'.rendered
       THEN Stored(FilterOptions(df_clean'),
                   selectbox(W.color_encode, FilterOptions(df_clean'), 0))
       ELSE NoSelect
  (* lines 155-170 *)
  /\ LET chart == IF chart_type'.rendered
                  THEN TryChart(chart_type'.value, x_axis'.value, y_axis'.value,
                                color_encode'.value, px_raises)
                  ELSE [fault |-> "none", fig |-> NoFig, notices |-> {}]
     IN  /\ fig' = chart.fig
         /\ notices' =
              IF uf = <<>> THEN {"info: Please upload a file"}
              ELSE load_data(uf[1], cache).notices
                   \cup CleaningNotices(columns_to_drop', missing_action')
                   \cup (IF df_clean'.present /\ ~selected_col_stat'.rendered
                         THEN {"warning: No numeric columns found"} ELSE {})
                   \cup chart.notices
         (* the exception that ended the run, if any *)
         /\ fault' =
              IF uf = <<>> THEN "none"
              ELSE IF load_data(uf[1], cache).raised THEN "DecodeError"
              ELSE IF ~df'.present THEN "none"
              ELSE IF ~df_clean'.present THEN "KeyError"
              ELSE IF ~chart_type'.rendered THEN "KeyError"
              ELSE chart.fault

(* the state after the first run, before any upload *)
Init ==
  /\ uploaded_file = <<>>
  /\ cache = {}
  /\ columns_to_drop = NoDrop
  /\ missing_action = NoMissing
  /\ filter_col = NoSelect
  /\ rng = NoRng
  /\ selected_vals = NoVals
  /\ selected_col_stat = NoSelect
  /\ percentile = NoPercentile
  /\ chart_type = NoChartType
  /\ x_axis = NoSelect
  /\ y_axis = NoSelect
  /\ color_encode = NoSelect
  /\ df = NoTable
  /\ df_clean = NoTable
  /\ metrics = NoMetrics
  /\ fig = NoFig
  /\ notices = {"info: Please upload a file"}
  /\ fault = "none"

(* ------------------------------------------------------------------ *)
(* Inputs                                                               *)
(* ------------------------------------------------------------------ *)
(* every table over Columns with 1..MaxRows rows *)
RowSeqs == UNION {[1..n -> RowCells] : n \in 1..MaxRows}
AllFiles == {CsvFile(Columns, q) : q \in RowSeqs}

(* a few concrete uploads: an undecodable file, a table with missing    *)
(* values in a numeric and in a text column, a table of two numeric     *)
(* columns                                                              *)
People == CsvFile(<<"age", "city">>,
                  << [age |-> Num(1), city |-> Str("A")],
                     [age |-> NA,     city |-> Str("B")],
                     [age |-> Num(2), city |-> NA] >>)
Scores == CsvFile(<<"score", "bonus">>,
                  << [score |-> Num(2), bonus |-> NA],
                     [score |-> Num(1), bonus |-> Num(1)] >>)
Files == {BadFile, People, Scores}

PercentileChoices == {0, 50, 90}

(* ------------------------------------------------------------------ *)
(* Actions: one user interaction and the run it triggers.  PX is the    *)
(* set of outcomes of the chart library call in that run (TRUE: it      *)
(* raises).                                                             *)
(* ------------------------------------------------------------------ *)
Upload(F, PX) ==
  \E f \in F, px \in PX :
    /\ uploaded_file # <<f>>
    /\ Rerun(<<f>>, Session, px)

RemoveFile(PX) ==
  /\ uploaded_file # <<>>
  /\ \E px \in PX : Rerun(<<>>, Session, px)

SetColumnsToDrop(PX) ==
  /\ columns_to_drop.rendered
  /\ \E c \in Range(columns_to_drop.id), px \in PX :
       LET v == IF c \in columns_to_drop.value
                THEN columns_to_drop.value \ {c}
                ELSE columns_to_drop.value \cup {c}
       IN  Rerun(uploaded_file,
                 [Session EXCEPT !.columns_to_drop.value = v], px)

SetMissingAction(PX) ==
  /\ missing_action.rendered
  /\ \E a \in MissingActions \ {missing_action.value}, px \in PX :
       Rerun(uploaded_file, [Session EXCEPT !.missing_action.value = a], px)

SetFilterCol(PX) ==
  /\ filter_col.rendered
  /\ \E c \in Range(filter_col.id) \ {filter_col.value}, px \in PX :
       Rerun(uploaded_file, [Session EXCEPT !.filter_col.value = c], px)

SetRng(PX) ==
  /\ rng.rendered
  /\ rng.id.min.t = "num"
  /\ \E lo \in rng.id.min.n .. rng.id.max.n, hi \in rng.id.min.n .. rng.id.max.n,
        px \in PX :
       /\ lo <= hi
       /\ <<Num(lo), Num(hi)>> # rng.value
       /\ Rerun(uploaded_file,
                [Session EXCEPT !.rng.value = <<Num(lo), Num(hi)>>], px)

SetSelectedVals(PX) ==
  /\ selected_vals.rendered
  /\ \E v \in Range(selected_vals.id.options), px \in PX :
       LET sel == IF v \in selected_vals.value
                  THEN selected_vals.value \ {v}
                  ELSE selected_vals.value \cup {v}
       IN  Rerun(uploaded_file, [Session EXCEPT !.selected_vals.value = sel], px)

SetSelectedColStat(PX) ==
  /\ selected_col_stat.rendered
  /\ \E c \in Range(selected_col_stat.id) \ {selected_col_stat.value}, px \in PX :
       Rerun(uploaded_file, [Session EXCEPT !.selected_col_stat.value = c], px)

SetPercentile(PX) ==
  /\ percentile.rendered
  /\ \E q \in PercentileChoices \ {percentile.value}, px \in PX :
       Rerun(uploaded_file, [Session EXCEPT !.percentile.value = q], px)

SetChartType(PX) ==
  /\ chart_type.rendered
  /\ \E k \in ChartTypes \ {chart_type.value}, px \in PX :
       Rerun(uploaded_file, [Session EXCEPT !.chart_type.value = k], px)

SetXAxis(PX) ==
  /\ x_axis.rendered
  /\ \E c \in Range(x_axis.id) \ {x_axis.value}, px \in PX :
       Rerun(uploaded_file, [Session EXCEPT !.x_axis.value = c], px)

SetYAxis(PX) ==
  /\ y_axis.rendered
  /\ \E c \in Range(y_axis.id) \ {y_axis.value}, px \in PX :
       Rerun(uploaded_file, [Session EXCEPT !.y_axis.value = c], px)

SetColorEncode(PX) ==
  /\ color_encode.rendered
  /\ \E c \in Range(color_encode.id) \ {color_encode.value}, px \in PX :
       Rerun(uploaded_file, [Session EXCEPT !.color_encode.value = c], px)

(* the whole program: any control, any of the concrete uploads *)
Next ==
  \/ Upload(Files, BOOLEAN)
  \/ RemoveFile(BOOLEAN)
  \/ SetColumnsToDrop(BOOLEAN)
  \/ SetMissingAction(BOOLEAN)
  \/ SetFilterCol(BOOLEAN)
  \/ SetRng(BOOLEAN)
  \/ SetSelectedVals(BOOLEAN)
  \/ SetSelectedColStat(BOOLEAN)
  \/ SetPercentile(BOOLEAN)
  \/ SetChartType(BOOLEAN)
  \/ SetXAxis(BOOLEAN)
  \/ SetYAxis(BOOLEAN)
  \/ SetColorEncode(BOOLEAN)

Spec == Init /\ [][Next]_vars

(* the cleaning tab: one upload of any table within the bounds, then any *)
(* sequence of changes of the cleaning controls; the chart is drawn      *)
UploadOnce ==
  /\ uploaded_file = <<>>
  /\ Upload(AllFiles, {FALSE})

NextClean ==
  \/ UploadOnce
  \/ SetColumnsToDrop({FALSE})
  \/ SetMissingAction({FALSE})
  \/ SetFilterCol({FALSE})
  \/ SetRng({FALSE})
  \/ SetSelectedVals({FALSE})

SpecClean == Init /\ [][NextClean]_vars

(* the statistics tab: the concrete uploads, the cleaning controls, the  *)
(* statistics column and the percentile                                  *)
NextStats ==
  \/ Upload(Files, BOOLEAN)
  \/ RemoveFile(BOOLEAN)
  \/ SetColumnsToDrop(BOOLEAN)
  \/ SetMissingAction(BOOLEAN)
  \/ SetFilterCol(BOOLEAN)
  \/ SetRng(BOOLEAN)
  \/ SetSelectedVals(BOOLEAN)
  \/ SetSelectedColStat(BOOLEAN)
  \/ SetPercentile(BOOLEAN)

SpecStats == Init /\ [][NextStats]_vars

(* the column selections: the concrete uploads, the drop set and every   *)
(* control that names a column or a chart kind                           *)
NextView ==
  \/ Upload(Files, BOOLEAN)
  \/ RemoveFile(BOOLEAN)
  \/ SetColumnsToDrop(BOOLEAN)
  \/ SetFilterCol(BOOLEAN)
  \/ SetSelectedColStat(BOOLEAN)
  \/ SetChartType(BOOLEAN)
  \/ SetXAxis(BOOLEAN)
  \/ SetYAxis(BOOLEAN)
  \/ SetColorEncode(BOOLEAN)

SpecView == Init /\ [][NextView]_vars

(* ================================================================== *)
(* Properties                                                           *)
(* ================================================================== *)
DropRows == "Drop Rows with Missing Values"
FillZero == "Fill with 0"
ChartError == "error: Could not create chart"
LoadError == "error: Error loading file"

(* position of x in the sequence q *)
Pos(q, x) == CHOOSE i \in 1..Len(q) : q[i] = x
(* the columns of the loaded table that are not selected for dropping *)
Remaining == Range(df.columns) \ columns_to_drop.value
(* the row of the loaded table with index label k *)
SourceRow(k) == df.rows[k + 1]
Indexes(t) == {t.rows[i].index : i \in 1..Len(t.rows)}
(* the loaded row k has no missing value in a remaining column *)
Complete(k) == \A c \in Remaining : ~isna(SourceRow(k).cells[c])
NoFilter == filter_col.value = "None"

(* C1: after the drop step the table has exactly the columns of the     *)
(* source that are not selected, in the source's order, and every row   *)
(* of the source with its cells; with nothing selected (and no policy,  *)
(* no filter) the derived table is the source.                          *)
C1_ColumnRemoval ==
  df_clean.present =>
    /\ Range(df_clean.columns) = Remaining
    /\ Cardinality(Range(df_clean.columns)) = Len(df_clean.columns)
    /\ \A i, j \in 1..Len(df_clean.columns) :
         i < j => Pos(df.columns, df_clean.columns[i]) < Pos(df.columns, df_clean.columns[j])
    /\ (missing_action.value = "None" /\ NoFilter) =>
         /\ Len(df_clean.rows) = Len(df.rows)
         /\ \A i \in 1..Len(df.rows) :
              /\ df_clean.rows[i].index = df.rows[i].index
              /\ \A c \in Remaining : df_clean.rows[i].cells[c] = df.rows[i].cells[c]
    /\ (columns_to_drop.value = {} /\ missing_action.value = "None" /\ NoFilter) =>
         df_clean = df

C1_Witness ==
  /\ df_clean.present
  /\ columns_to_drop.value = {"age"}
  /\ df_clean.columns = <<"city">>
  /\ missing_action.value = "None" /\ NoFilter
  /\ Len(df_clean.rows) = 2

(* C2: with the policy "Drop Rows with Missing Values" no row of the    *)
(* derived table has a missing value in a remaining column, the row     *)
(* count is at most the source's, and (without a filter) the rows kept  *)
(* are exactly the source rows with no missing value in a remaining     *)
(* column, so a row missing only in dropped columns survives.           *)
C2_DropRows ==
  (df_clean.present /\ missing_action.value = DropRows) =>
    /\ \A i \in 1..Len(df_clean.rows) :
         \A c \in Range(df_clean.columns) : ~isna(df_clean.rows[i].cells[c])
    /\ Len(df_clean.rows) <= Len(df.rows)
    /\ NoFilter =>
         /\ Indexes(df_clean) = {k \in Indexes(df) : Complete(k)}
         /\ Cardinality(Indexes(df_clean)) = Len(df_clean.rows)

C2_Witness ==
  /\ df_clean.present /\ missing_action.value = DropRows /\ NoFilter
  /\ columns_to_drop.value = {"city"}
  /\ \E k \in Indexes(df_clean) : isna(SourceRow(k).cells["city"])
  /\ \E k \in Indexes(df) \ Indexes(df_clean) : isna(SourceRow(k).cells["age"])

(* C3: with the policy "Fill with 0" the derived table has no missing   *)
(* value; every cell that was missing holds the number 0, in numeric    *)
(* and text columns alike, every other cell is unchanged; without a     *)
(* filter the row count is the source's.                                *)
C3_FillZero ==
  (df_clean.present /\ missing_action.value = FillZero) =>
    /\ \A i \in 1..Len(df_clean.rows) : \A c \in Range(df_clean.columns) :
         LET was == SourceRow(df_clean.rows[i].index).cells[c]
         IN  df_clean.rows[i].cells[c] = IF isna(was) THEN Num(0) ELSE was
    /\ NoFilter => Len(df_clean.rows) = Len(df.rows)

C3_Witness ==
  /\ df_clean.present /\ missing_action.value = FillZero /\ NoFilter
  /\ df_clean.dtypes = [age |-> "float64", city |-> "object"]
  /\ \E i \in 1..Len(df_clean.rows) :
       /\ isna(df.rows[i].cells["city"]) /\ df_clean.rows[i].cells["city"] = Num(0)
       /\ isna(df.rows[i].cells["age"]) /\ df_clean.rows[i].cells["age"] = Num(0)

(* the table the filter is applied to *)
FilterInput == Cleaned(df, columns_to_drop.value, missing_action.value)

(* C4: with a numeric filter column that has observed values, under     *)
(* every missing-value policy, the range equal to the column's observed *)
(* [min, max] removes no row, and a narrower range removes exactly the  *)
(* rows whose value lies outside it.                                    *)
C4_FullRangeNoOp ==
  (df_clean.present /\ rng.rendered /\ rng.id.min.t = "num") =>
    /\ rng.value = <<rng.id.min, rng.id.max>> => df_clean = FilterInput
    /\ \A i \in 1..Len(FilterInput.rows) :
         LET r == FilterInput.rows[i]
             v == r.cells[filter_col.value]
         IN  r.index \notin Indexes(df_clean) =>
               v.t = "num" /\ (v.n < rng.value[1].n \/ v.n > rng.value[2].n)

(* C5: with a text filter column the derived table holds exactly the    *)
(* rows whose value in that column is selected (a missing value is a    *)
(* value of the column); all values selected leaves the table           *)
(* unchanged, none selected leaves no row; the selection is always      *)
(* among the column's distinct values.                                  *)
C5_SetMembership ==
  (df_clean.present /\ selected_vals.rendered) =>
    LET S == selected_vals.value
        D == {FilterInput.rows[i].cells[filter_col.value] : i \in 1..Len(FilterInput.rows)}
    IN  /\ Range(selected_vals.id.options) = D
        /\ S \subseteq D
        /\ df_clean.columns = FilterInput.columns
        /\ Indexes(df_clean) =
             {FilterInput.rows[i].index :
                i \in {j \in 1..Len(FilterInput.rows) :
                         FilterInput.rows[j].cells[filter_col.value] \in S}}
        /\ \A i \in 1..Len(df_clean.rows) :
             df_clean.rows[i] \in Range(FilterInput.rows)
        /\ S = D => df_clean = FilterInput
        /\ S = {} => Len(df_clean.rows) = 0

C5_Witness ==
  /\ df_clean.present /\ selected_vals.rendered
  /\ missing_action.value = "None"
  /\ selected_vals.value = {NA}
  /\ Range(selected_vals.id.options) = {Str("A"), NA}
  /\ Len(df_clean.rows) = 1
  /\ Len(df.rows) = 2

(* C6: the derived table shown is the result of applying the current    *)
(* selections, in the order drop columns, missing-value policy, filter, *)
(* to the table decoded from the uploaded file; the loaded table and    *)
(* the memo of load_data hold that decoded table unchanged.             *)
ExpectedTable ==
  LET src    == read(uploaded_file[1])
      keep   == SelectSeq(src.columns, LAMBDA c : c \notin columns_to_drop.value)
      cell(i, c) == IF missing_action.value = FillZero /\ isna(src.rows[i].cells[c])
                    THEN Num(0) ELSE src.rows[i].cells[c]
      whole(i) == missing_action.value = DropRows =>
                    \A c \in Range(keep) : ~isna(src.rows[i].cells[c])
      inRange(v) == v.t = "num" /\ rng.value[1].t = "num" /\ rng.value[2].t = "num"
                    /\ rng.value[1].n <= v.n /\ v.n <= rng.value[2].n
      passes(i) == \/ filter_col.value = "None"
                   \/ /\ src.dtypes[filter_col.value] # "object"
                      /\ inRange(cell(i, filter_col.value))
                   \/ /\ src.dtypes[filter_col.value] = "object"
                      /\ cell(i, filter_col.value) \in selected_vals.value
      all    == [i \in 1..Len(src.rows) |->
                   [index |-> i - 1, cells |-> [c \in Range(keep) |-> cell(i, c)]]]
      kept   == {i \in 1..Len(src.rows) : whole(i) /\ passes(i)}
  IN  [present |-> TRUE,
       columns |-> keep,
       dtypes  |-> [c \in Range(keep) |-> src.dtypes[c]],
       rows    |-> SelectSeq(all, LAMBDA r : (r.index + 1) \in kept)]

C6_RecomputeFromSource ==
  uploaded_file # <<>> =>
    /\ fault = "none"
    /\ df = read(uploaded_file[1])
    /\ cache = {[file |-> uploaded_file[1], df |-> read(uploaded_file[1]), notices |-> {}]}
    /\ filter_col.value \in {"None"} \cup Remaining
    /\ df_clean = ExpectedTable

C6_Witness ==
  /\ df_clean.present
  /\ columns_to_drop.value = {"city"}
  /\ missing_action.value = FillZero
  /\ filter_col.value = "age"
  /\ rng.value = <<Num(1), Num(2)>>
  /\ rng.id.min = Num(0)
  /\ Len(df.rows) = 2
  /\ Len(df_clean.rows) = 1

(* C7: when the uploaded file cannot be decoded the run reports the     *)
(* load error, has no table, executes none of the tabs and ends         *)
(* without an exception; with a decodable file uploaded (also after a   *)
(* failed one) all four tabs run.                                       *)
TabsRun ==
  /\ df.present /\ df_clean.present
  /\ columns_to_drop.rendered /\ missing_action.rendered /\ filter_col.rendered
  /\ (selected_col_stat.rendered <=> metrics.shown)
  /\ (selected_col_stat.rendered \/ "warning: No numeric columns found" \in notices)
  /\ chart_type.rendered /\ x_axis.rendered /\ y_axis.rendered /\ color_encode.rendered
  /\ (fig.shown \/ ChartError \in notices)
NoTabRuns ==
  /\ ~df.present /\ ~df_clean.present
  /\ ~columns_to_drop.rendered /\ ~missing_action.rendered /\ ~filter_col.rendered
  /\ ~rng.rendered /\ ~selected_vals.rendered
  /\ ~selected_col_stat.rendered /\ ~percentile.rendered /\ ~metrics.shown
  /\ ~chart_type.rendered /\ ~x_axis.rendered /\ ~y_axis.rendered
  /\ ~color_encode.rendered /\ ~fig.shown

C7_LoadFailure ==
  /\ fault = "none"
  /\ (uploaded_file # <<>> /\ ~uploaded_file[1].decodable) =>
       (NoTabRuns /\ notices = {LoadError})
  /\ (uploaded_file # <<>> /\ uploaded_file[1].decodable) =>
       (TabsRun /\ LoadError \notin notices)

C7_Witness ==
  /\ uploaded_file = <<People>>
  /\ \E e \in cache : ~e.file.decodable /\ ~e.df.present
  /\ TabsRun

(* C8: a failure of the chart library is reported as an error notice    *)
(* and nothing else: the run ends without an exception, the derived     *)
(* table is shown, and the statistics of the run are those of the       *)
(* derived table.                                                       *)
C8_ChartFailureContained ==
  chart_type.rendered =>
    /\ fault = "none"
    /\ fig.shown # (ChartError \in notices)
    /\ df_clean.present
    /\ metrics.shown <=> select_numeric(df_clean) # <<>>
    /\ metrics.shown =>
         metrics = Metrics(df_clean, selected_col_stat.value, percentile.value)

C8_Witness ==
  /\ ChartError \in notices
  /\ chart_type.value = "Box Plot"
  /\ x_axis.value = "age" /\ y_axis.value = "city" /\ color_encode.value = "city"
  /\ metrics.shown /\ ~metrics.mean.nan
  /\ ~fig.shown

(* C9: in every run the filter column, the statistics column and the    *)
(* chart's X, Y and color columns are "None"/no selection or a column   *)
(* of the derived table, no run ends with an exception, and a run in    *)
(* which the selected filter, statistics or axis column has just been   *)
(* added to the drop set uses the control's default.                    *)
ColumnOrNone(w, t) ==
  w.rendered => (w.value \in Range(t.columns) \/ w.value \in {"None", PyNone})
FirstOr(q, i) == IF Len(q) = 0 THEN PyNone ELSE q[i]
StaleFree ==
  /\ fault = "none"
  /\ columns_to_drop.value \subseteq Range(df.columns)
  /\ ColumnOrNone(filter_col, df_clean)
  /\ selected_col_stat.rendered =>
       selected_col_stat.value \in Range(select_numeric(df_clean))
  /\ ColumnOrNone(x_axis, df_clean) /\ (x_axis.value = PyNone <=> df_clean.columns = <<>>)
  /\ ColumnOrNone(y_axis, df_clean) /\ (y_axis.value = PyNone <=> df_clean.columns = <<>>)
  /\ ColumnOrNone(color_encode, df_clean)
  /\ color_encode.rendered => color_encode.value # PyNone
  /\ filter_col.rendered => filter_col.value # PyNone
JustDropped(w) == w.rendered /\ w.value \in columns_to_drop'.value \ columns_to_drop.value
DefaultsAfterDrop ==
  /\ JustDropped(filter_col) => filter_col'.value = "None"
  /\ JustDropped(selected_col_stat) /\ selected_col_stat'.rendered =>
       selected_col_stat'.value = select_numeric(df_clean')[1]
  /\ JustDropped(x_axis) => x_axis'.value = FirstOr(df_clean'.columns, 1)
  /\ JustDropped(y_axis) =>
       y_axis'.value = FirstOr(df_clean'.columns, IF Len(df_clean'.columns) > 1 THEN 2 ELSE 1)
  /\ JustDropped(color_encode) => color_encode'.value = "None"
  /\ (\E w \in {filter_col, selected_col_stat, x_axis, y_axis, color_encode} : JustDropped(w)) =>
       fault' = "none" /\ df_clean'.present

C9_NoStaleColumn == [] StaleFree /\ [][DefaultsAfterDrop]_vars

C9_Witness ==
  /\ columns_to_drop.value = {"bonus"}
  /\ df.columns = <<"score", "bonus">>
  /\ df_clean.columns = <<"score">>
  /\ filter_col.value = "None"
  /\ selected_col_stat.value = "score"
  /\ x_axis.value = "score" /\ y_axis.value = "score" /\ color_encode.value = "None"
  /\ fault = "none"

(* C10: when the selected numeric column of the derived table has       *)
(* fewer than two observations the standard deviation is displayed as   *)
(* "nan" (not a number), no exception is raised, and the percentile     *)
(* and the chart tab of the run are still executed; with two or more    *)
(* observations a number is displayed.                                  *)
NumObs(t, c) == Cardinality({i \in 1..Len(t.rows) : t.rows[i].cells[c].t = "num"})
====
